---- MODULE Spec2Model ----
(***************************************************************************)
(* A model of kalibrate-rtl.py: the channel selector BTSChannels.getBest,  *)
(* the aggregator CalTool.measureMeanPPM, the channel-list loader          *)
(* BTSChannels.__init__ and the orchestration under __main__.              *)
(*                                                                         *)
(* Numbers.  The program computes in floating point; the model computes in *)
(* exact arithmetic on integers.  A frequency deviation and a threshold    *)
(* are counted in units of 0.1 kHz, so the default threshold 0.6 is 6.     *)
(* A quotient is never rounded: the comparison  |d - S/n| < t  is made as  *)
(* |n*d - S| < n*t, and the aggregator's quotient is kept as a fraction    *)
(* <<numerator, denominator>>.                                             *)
(*                                                                         *)
(* Files.  Opening, reading and writing a file do not fail in the model;   *)
(* the external tool can fail at every run.                                *)
(*                                                                         *)
(* A channel is the program's tuple (band, channel, freq, freq_err, p);    *)
(* Python's c[3] and c[4] are the 4th and 5th components here.             *)
(***************************************************************************)
EXTENDS Integers, Sequences, FiniteSets, TLC

\* ------------------------------------------------------------- bounds
MaxLen == 3
\* Deviations are tried DevStep apart, so that a threshold can lie between
\* two of them.
DevStep == 2
MaxDev == 1
MaxPow == 1
MaxThr == 2
MaxN == 1
MaxPPM == 2
MaxPad == 1

\* ---------------------------------------------------- program constants
\* getBest's default max_freq_err, 0.6 kHz, in units of 0.1 kHz.
DefaultMaxFreqErr == 6
\* getBest's default nchannels, also the default of --nchannels.
DefaultNChannels == 3

\* ------------------------------------------------------------ helpers
Abs(x) == IF x < 0 THEN -x ELSE x

Min(a, b) == IF a < b THEN a ELSE b

\* The channel tuple (band, channel, freq, freq_err, p); freq in 0.1 MHz.
Channel(ch, dev, p) == <<"GSM900", ch, 9000 + 2 * (ch - 1), dev, p>>

FreqErr(c) == c[4]

Power(c) == c[5]

RECURSIVE SumFreqErr(_)
\* sum([c[3] for c in channels])
SumFreqErr(s) == IF s = <<>> THEN 0 ELSE FreqErr(Head(s)) + SumFreqErr(Tail(s))

\* The distance taken from the sum of the deviations, not from their mean.
MutScaledErrFromSum(s, idx) == Len(s) * Abs(FreqErr(s[idx]) - SumFreqErr(s))

\* abs(channels[idx][3] - f_mean), times len(channels); idx is 1-based here.
ScaledErr(s, idx) == Abs(Len(s) * FreqErr(s[idx]) - SumFreqErr(s))

RECURSIVE ScanFrom(_, _, _, _)
\* The for loop of getBest from position idx on, with the running maximum
\* (_f_err, _idx); _idx keeps Python's 0-based value, -1 for "none found".
ScanFrom(s, idx, ferr, fidx) ==
    IF idx > Len(s) THEN <<ferr, fidx>>
    ELSE IF ScaledErr(s, idx) > ferr
         THEN ScanFrom(s, idx + 1, ScaledErr(s, idx), idx - 1)
         ELSE ScanFrom(s, idx + 1, ferr, fidx)

\* _f_err, _idx = 0., -1 and the for loop: <<len * _f_err, _idx>>.
WorstOffender(s) == ScanFrom(s, 1, 0, -1)

\* The break taken when the largest distance is above the threshold.
MutConsistentInverted(s, thr) == WorstOffender(s)[1] > Len(s) * thr

\* _f_err < max_freq_err, both sides times len(channels).
Consistent(s, thr) == WorstOffender(s)[1] < Len(s) * thr

\* A pop that leaves the list alone when no index was found.
MutPopSkipsNegative(s, i) ==
    IF i < 0 THEN s
    ELSE [j \in 1..(Len(s) - 1) |-> IF j < i + 1 THEN s[j] ELSE s[j + 1]]

\* list.pop(i) for a list on which it does not raise: a negative index
\* counts from the end.
Pop(s, i) ==
    LET k == IF i < 0 THEN Len(s) + i + 1 ELSE i + 1
    IN  [j \in 1..(Len(s) - 1) |-> IF j < k THEN s[j] ELSE s[j + 1]]

RECURSIVE InsertByPower(_, _)
\* c goes after every element whose key -power is not larger than its own.
InsertByPower(sorted, c) ==
    IF sorted = <<>> THEN <<c>>
    ELSE IF Power(Head(sorted)) >= Power(c)
         THEN <<Head(sorted)>> \o InsertByPower(Tail(sorted), c)
         ELSE <<c>> \o sorted

RECURSIVE MutSortAscending(_)
\* The sort with the key c[4]: weakest first.
MutSortAscending(s) ==
    IF s = <<>> THEN <<>>
    ELSE LET rest == MutSortAscending(Tail(s))
             weaker == SelectSeq(rest, LAMBDA c : Power(c) < Power(Head(s)))
             others == SelectSeq(rest, LAMBDA c : Power(c) >= Power(Head(s)))
         IN  weaker \o <<Head(s)>> \o others

RECURSIVE SortByPower(_)
\* channels.sort(key=lambda c: -c[4]): a stable sort, strongest first.
SortByPower(s) ==
    IF s = <<>> THEN <<>>
    ELSE InsertByPower(SortByPower(SubSeq(s, 1, Len(s) - 1)), s[Len(s)])

\* channels[:n]: a negative n counts from the end.
Slice(s, n) ==
    LET k == IF n < 0 THEN Len(s) + n ELSE n
    IN  SubSeq(s, 1, IF k < 0 THEN 0 ELSE Min(k, Len(s)))

\* ---------------------------------------------------------- fractions
\* numerator / denominator with the sign carried by the numerator.
Frac(n, d) == IF d < 0 THEN <<-n, -d>> ELSE <<n, d>>

FracOfInt(v) == <<v, 1>>

\* a + v, a - b, a / k (k # 0), abs(a) and a > b on fractions.
FracAddInt(a, v) == Frac(a[1] + v * a[2], a[2])

FracSub(a, b) == Frac(a[1] * b[2] - b[1] * a[2], a[2] * b[2])

FracDivInt(a, k) == Frac(a[1], a[2] * k)

FracAbs(a) == <<Abs(a[1]), a[2]>>

FracGreater(a, b) == a[1] * b[2] > b[1] * a[2]

\* max() of a non-empty list: the first of the largest.
MaxFrac(s) ==
    s[CHOOSE k \in 1..Len(s) :
        /\ \A j \in 1..Len(s) : ~FracGreater(s[j], s[k])
        /\ \A j \in 1..(k - 1) : FracGreater(s[k], s[j])]

\* max([abs(_ppm - ppm) for _ppm in ppms])
MaxAbsErr(vals, mean) ==
    MaxFrac([i \in 1..Len(vals) |-> FracAbs(FracSub(FracOfInt(vals[i]), mean))])

\* -------------------------------------------------------------- text
\* A line of text is a sequence of pieces; a piece is a run of characters
\* without white space, or one white space character.
HDR ==
    <<"band,channel,freq", " ", "(MHz),freq", " ", "deviation", " ", "(kHz),power">>

WhiteSpace == {" ", "\t", "\n"}

RECURSIVE LStrip(_)
LStrip(l) == IF l # <<>> /\ Head(l) \in WhiteSpace THEN LStrip(Tail(l)) ELSE l

RECURSIVE RStrip(_)
RStrip(l) ==
    IF l # <<>> /\ l[Len(l)] \in WhiteSpace THEN RStrip(SubSeq(l, 1, Len(l) - 1)) ELSE l

\* str.strip()
Strip(l) == RStrip(LStrip(l))

\* A header accepted when the expected one starts with it.
MutHeaderPrefixAccepted(line) ==
    Strip(line) # SubSeq(HDR, 1, Min(Len(Strip(line)), Len(HDR)))

\* hdr != self.HDR for hdr = fch.readline().strip()
HeaderRejected(line) == Strip(line) # HDR

\* ------------------------------------------------------------ inputs
Devs == {DevStep * k : k \in 0..MaxDev}

Pows == 0..MaxPow

Thresholds == 0..MaxThr

Counts == (-1)..MaxN

\* Channel lists of one length: the channel numbers are 1..k in list order.
ListsOfLen(k) ==
    {[i \in 1..k |-> Channel(i, d[i], p[i])] : d \in [1..k -> Devs], p \in [1..k -> Pows]}

ChannelLists == UNION {ListsOfLen(k) : k \in 0..MaxLen}

\* The selector scenario of the specification: deviations 0.1, 0.5 and 5.0.
ScenarioChannels == <<Channel(1, 1, 50), Channel(2, 5, 80), Channel(3, 50, 90)>>

\* The arguments <<nchannels, max_freq_err>> getBest is tried with on a
\* list: every count and threshold of the bounds, and for the scenario
\* the default threshold.
CallArgs(list) ==
    IF list = ScenarioChannels
    THEN {2, DefaultNChannels} \X {DefaultMaxFreqErr}
    ELSE Counts \X Thresholds


\* The powers the aggregator is given: zero and negative ones too.
AggPows == (-1)..MaxPow

AggLists ==
    UNION {{[i \in 1..k |-> Channel(i, 0, p[i])] : p \in [1..k -> AggPows]} : k \in 0..MaxLen}

\* The aggregator scenario of the specification: powers 10 and 30.
ScenarioSelection == <<Channel(1, 0, 10), Channel(2, 0, 30)>>

\* What the tool reports as "average absolute error".
PPMs == 0..MaxPPM

\* check_output raising, or the marker missing from the output (the
\* unpacking on line 49 or 50 raises ValueError).
MeasureErrors == {"CalledProcessError", "TimeoutExpired", "ValueError"}

ScanErrors == {"CalledProcessError", "ValueError"}

\* What a channel-list file holds after its first line, and what a scan finds.
FileLists == ListsOfLen(0) \cup ListsOfLen(1) \cup {ScenarioChannels}

\* White space before and after the text of a first line.
Pads == UNION {[1..k -> {" ", "\t"}] : k \in 0..MaxPad}

HeaderTexts ==
    { HDR,
      <<>>,
      SubSeq(HDR, 1, 5),
      <<"Band,channel,freq", " ", "(MHz),freq", " ", "deviation", " ", "(kHz),power">>,
      <<"band,channel,freq", " ", " ", "(MHz),freq", " ", "deviation", " ", "(kHz),power">>,
      <<"band,channel,freq", "\t", "(MHz),freq", " ", "deviation", " ", "(kHz),power">>,
      <<"GSM900,1,900.000000,0.100000,50.00">> }

\* What readline() returns: the text up to and with the first newline; no
\* newline when the file ends there.
FirstLines ==
    {pre \o text \o post \o eol :
        pre \in Pads, text \in HeaderTexts, post \in Pads, eol \in {<<>>, <<"\n">>}}

\* args.channellist as given, and with '.csv' appended.
Paths == {<<"bts_channels.csv">>, <<"chan">>}

WithCsv(path) == Append(path, ".csv")

\* --band: absent (None), empty, or a band name.
Bands == {"None", "", "GSM900"}

\* Python's truth value of args.band.
Truthy(band) == band \notin {"None", ""}

VARIABLES
    self,           \* the BTSChannels list
    channels,       \* getBest's working copy
    nchannels,      \* getBest's argument
    max_freq_err,   \* getBest's argument
    selPc,          \* where getBest is: "idle", "loop", "sort", "done"
    iters,          \* passes through the while body so far
    best,           \* getBest's return value
    aggArg,         \* measureMeanPPM's argument channels
    ppms,           \* measureMeanPPM's list ppms
    ppm,            \* measureMeanPPM's ppm, a fraction
    pwr,            \* measureMeanPPM's pwr
    aggPc,          \* where measureMeanPPM is: "idle", "loop", "done", "raised"
    aggResult,      \* measureMeanPPM's return value (ppm, ppm_err), <<>> for none
    given,          \* the arguments as parse_args returned them
    args,           \* the parsed arguments, as the main program updates them
    fs,             \* the paths that are files
    mainPc,         \* where the main program is
    firstLine,      \* the loader's first line as read
    dataLinesRead,  \* lines the loader has read after the first
    opened,         \* every path opened for reading
    toolCalls,      \* every run of the external tool: <<arguments, "ok" or "failed", result>>
    saved,          \* every file written: <<path, lines>>
    stdout,         \* what was printed
    exitStatus,     \* the status of exit(), -1 while there was none
    raised          \* the exception that ended the run, "none" while there was none

selVars == <<self, channels, nchannels, max_freq_err, selPc, iters, best>>

aggVars == <<aggArg, ppms, ppm, pwr, aggPc, aggResult>>

mainVars == <<given, args, fs, mainPc, firstLine, dataLinesRead, opened, saved, stdout, exitStatus>>

vars == <<selVars, aggVars, mainVars, toolCalls, raised>>

\* ----------------------------------------------------------- getBest
\* Line 97: channels = self[:], with the arguments bound.
CallGetBest(n, thr) ==
    /\ selPc = "idle"
    /\ channels' = self
    /\ nchannels' = n
    /\ max_freq_err' = thr
    /\ selPc' = "loop"
    /\ iters' = 0
    /\ UNCHANGED <<self, best>>

\* Lines 98-107, a pass of the while body that ends in channels.pop(_idx).
RemoveWorst ==
    /\ selPc = "loop"
    /\ channels # <<>>
    /\ ~Consistent(channels, max_freq_err)
    /\ channels' = Pop(channels, WorstOffender(channels)[2])
    /\ iters' = iters + 1
    /\ UNCHANGED <<self, nchannels, max_freq_err, selPc, best>>
    /\ UNCHANGED <<aggVars, mainVars, toolCalls, raised>>

\* Lines 98-106, the pass of the while body that ends in break.
BreakLoop ==
    /\ selPc = "loop"
    /\ channels # <<>>
    /\ Consistent(channels, max_freq_err)
    /\ selPc' = "sort"
    /\ iters' = iters + 1
    /\ UNCHANGED <<self, channels, nchannels, max_freq_err, best>>
    /\ UNCHANGED <<aggVars, mainVars, toolCalls, raised>>

\* Line 98, the while condition fails on the empty list.
ExitLoop ==
    /\ selPc = "loop"
    /\ channels = <<>>
    /\ selPc' = "sort"
    /\ UNCHANGED <<self, channels, nchannels, max_freq_err, iters, best>>
    /\ UNCHANGED <<aggVars, mainVars, toolCalls, raised>>

\* Lines 110-111: sort by power and return the first nchannels.
SortAndReturn ==
    /\ selPc = "sort"
    /\ channels' = SortByPower(channels)
    /\ best' = Slice(SortByPower(channels), nchannels)
    /\ selPc' = "done"
    /\ UNCHANGED <<self, nchannels, max_freq_err, iters>>
    /\ UNCHANGED <<aggVars, mainVars, toolCalls, raised>>

\* A call of getBest from outside the main program, with any arguments.
DirectGetBest ==
    /\ mainPc = "none"
    /\ \E call \in CallArgs(self) : CallGetBest(call[1], call[2])
    /\ UNCHANGED <<aggVars, mainVars, toolCalls, raised>>

\* ---------------------------------------------------- measureMeanPPM
\* The command line of measurePPM, lines 46-47.
MeasureCommand(ch) == <<"-b", ch[1], "-c", ch[2]>>

\* Lines 55-57: ppms = [], ppm = 0., pwr = 0.
CallMeasureMeanPPM(chs) ==
    /\ aggPc = "idle"
    /\ aggArg' = chs
    /\ ppms' = <<>>
    /\ ppm' = FracOfInt(0)
    /\ pwr' = 0
    /\ aggPc' = "loop"
    /\ UNCHANGED aggResult

\* The value added without its weight.
MutUnweighted(v, ch) == v

\* Line 61: _ppm * ch[4].
Weighted(v, ch) == v * Power(ch)

\* The channel the for loop on line 58 is at.
NextChannel == aggArg[Len(ppms) + 1]

\* Lines 58-62, a pass whose measurement succeeds with the value v.
MeasureOk ==
    /\ aggPc = "loop"
    /\ Len(ppms) < Len(aggArg)
    /\ \E v \in PPMs :
        /\ toolCalls' = Append(toolCalls, <<MeasureCommand(NextChannel), "ok", v>>)
        /\ ppms' = Append(ppms, v)
        /\ ppm' = FracAddInt(ppm, Weighted(v, NextChannel))
    /\ pwr' = pwr + Power(NextChannel)
    /\ UNCHANGED <<aggArg, aggPc, aggResult, raised>>
    /\ UNCHANGED <<selVars, mainVars>>

\* A failed measurement that is logged and tried again.
MutMeasureFailRetries ==
    /\ aggPc = "loop"
    /\ Len(ppms) < Len(aggArg)
    /\ \E e \in MeasureErrors :
        toolCalls' = Append(toolCalls, <<MeasureCommand(NextChannel), "failed", e>>)
    /\ UNCHANGED <<aggVars, selVars, mainVars, raised>>

\* Lines 58-59, a pass whose measurement raises.
MeasureFail ==
    /\ aggPc = "loop"
    /\ Len(ppms) < Len(aggArg)
    /\ \E e \in MeasureErrors :
        /\ toolCalls' = Append(toolCalls, <<MeasureCommand(NextChannel), "failed", e>>)
        /\ raised' = e
    /\ aggPc' = "raised"
    /\ UNCHANGED <<aggArg, ppms, ppm, pwr, aggResult>>
    /\ UNCHANGED <<selVars, mainVars>>

\* Lines 63-65 with pwr # 0: divide, take the largest error, return.
DivideAndReturn ==
    /\ aggPc = "loop"
    /\ Len(ppms) = Len(aggArg)
    /\ pwr # 0
    /\ ppm' = FracDivInt(ppm, pwr)
    /\ aggResult' = <<FracDivInt(ppm, pwr), MaxAbsErr(ppms, FracDivInt(ppm, pwr))>>
    /\ aggPc' = "done"
    /\ UNCHANGED <<aggArg, ppms, pwr, toolCalls, raised>>
    /\ UNCHANGED <<selVars, mainVars>>

\* A division by zero that yields not-a-number, as it does outside Python.
MutDivideByZeroReturnsNaN ==
    /\ aggPc = "loop"
    /\ Len(ppms) = Len(aggArg)
    /\ pwr = 0
    /\ aggResult' = <<"nan", "nan">>
    /\ aggPc' = "done"
    /\ UNCHANGED <<aggArg, ppms, ppm, pwr, toolCalls, raised>>
    /\ UNCHANGED <<selVars, mainVars>>

\* Line 63 with pwr = 0: the float division raises.
DivideByZero ==
    /\ aggPc = "loop"
    /\ Len(ppms) = Len(aggArg)
    /\ pwr = 0
    /\ raised' = "ZeroDivisionError"
    /\ aggPc' = "raised"
    /\ UNCHANGED <<aggArg, ppms, ppm, pwr, aggResult, toolCalls>>
    /\ UNCHANGED <<selVars, mainVars>>

\* ------------------------------------------------------ main program
\* The decision without the second look, for the path with '.csv' appended.
MutMainDecideNoCsv ==
    /\ mainPc = "start"
    /\ args' =
        IF ~args.scan /\ args.channellist \notin fs
        THEN [args EXCEPT !.scan = TRUE]
        ELSE args
    /\ mainPc' = "decided"
    /\ UNCHANGED <<given, fs, firstLine, dataLinesRead, opened, saved, stdout, exitStatus>>
    /\ UNCHANGED <<selVars, aggVars, toolCalls, raised>>

\* Lines 130-135: look for the channel list, force a scan if there is none.
MainDecide ==
    /\ mainPc = "start"
    /\ args' =
        IF ~args.scan /\ args.channellist \notin fs
        THEN IF WithCsv(args.channellist) \notin fs
             THEN [args EXCEPT !.scan = TRUE]
             ELSE [args EXCEPT !.channellist = WithCsv(args.channellist)]
        ELSE args
    /\ mainPc' = "decided"
    /\ UNCHANGED <<given, fs, firstLine, dataLinesRead, opened, saved, stdout, exitStatus>>
    /\ UNCHANGED <<selVars, aggVars, toolCalls, raised>>

\* Lines 136-139: a scan without a band prints the help and exits.
MainHelpExit ==
    /\ mainPc = "decided"
    /\ args.scan
    /\ ~Truthy(args.band)
    /\ stdout' = Append(stdout, <<"help">>)
    /\ exitStatus' = 1
    /\ mainPc' = "exit"
    /\ UNCHANGED <<given, args, fs, firstLine, dataLinesRead, opened, saved>>
    /\ UNCHANGED <<selVars, aggVars, toolCalls, raised>>

\* Line 93: a channel written through '%s,%d,%f,%f,%.2f\n'.  The model keeps
\* the format and its argument, not the text they make.
SavedLine(ch) == <<"%s,%d,%f,%f,%.2f\n", ch>>

\* The command line of listChannels, line 22.
ScanCommand(band) == <<"-s", band>>

\* Lines 140-141: listChannels finds chlist, BTSChannels wraps it (line 86)
\* and save writes the header and a line for each channel (lines 89-93).
MainScan ==
    /\ mainPc = "decided"
    /\ args.scan
    /\ Truthy(args.band)
    /\ \E chlist \in FileLists :
        /\ toolCalls' = Append(toolCalls, <<ScanCommand(args.band), "ok", chlist>>)
        /\ self' = chlist
        /\ saved' = Append(saved, <<args.channellist,
                        <<HDR \o <<"\n">>>> \o [i \in 1..Len(chlist) |-> SavedLine(chlist[i])]>>)
    /\ fs' = fs \cup {args.channellist}
    /\ mainPc' = "channels"
    /\ UNCHANGED <<given, args, firstLine, dataLinesRead, opened, stdout, exitStatus, raised>>
    /\ UNCHANGED <<channels, nchannels, max_freq_err, selPc, iters, best, aggVars>>

\* Line 140, listChannels raises: the tool fails or its output does not parse.
MainScanFail ==
    /\ mainPc = "decided"
    /\ args.scan
    /\ Truthy(args.band)
    /\ \E e \in ScanErrors :
        /\ toolCalls' = Append(toolCalls, <<ScanCommand(args.band), "failed", e>>)
        /\ raised' = e
    /\ mainPc' = "raised"
    /\ UNCHANGED <<given, args, fs, firstLine, dataLinesRead, opened, saved, stdout, exitStatus>>
    /\ UNCHANGED <<selVars, aggVars>>

\* Lines 143 and 74-79: open the file, read its first line, compare it.
LoadHeader ==
    /\ mainPc = "decided"
    /\ ~args.scan
    /\ opened' = Append(opened, args.channellist)
    /\ \E line \in FirstLines :
        /\ firstLine' = line
        /\ IF HeaderRejected(line)
           THEN raised' = "ValueError" /\ mainPc' = "raised"
           ELSE raised' = raised /\ mainPc' = "records"
    /\ UNCHANGED <<given, args, fs, dataLinesRead, saved, stdout, exitStatus>>
    /\ UNCHANGED <<selVars, aggVars, toolCalls>>

\* Lines 80-84: every further line becomes a channel; __init__ returns.
LoadRecords ==
    /\ mainPc = "records"
    /\ \E recs \in FileLists :
        /\ self' = recs
        /\ dataLinesRead' = Len(recs)
    /\ firstLine' = <<>>
    /\ mainPc' = "channels"
    /\ UNCHANGED <<given, args, fs, opened, saved, stdout, exitStatus, raised, toolCalls>>
    /\ UNCHANGED <<channels, nchannels, max_freq_err, selPc, iters, best, aggVars>>

\* Lines 80-83: a line after some channels does not convert.
LoadRecordsFail ==
    /\ mainPc = "records"
    /\ \E recs \in FileLists :
        /\ self' = recs
        /\ dataLinesRead' = Len(recs) + 1
    /\ raised' = "ValueError"
    /\ mainPc' = "raised"
    /\ UNCHANGED <<given, args, fs, firstLine, opened, saved, stdout, exitStatus, toolCalls>>
    /\ UNCHANGED <<channels, nchannels, max_freq_err, selPc, iters, best, aggVars>>

\* Line 145, the inner call: channels.getBest(args.nchannels).
MainGetBest ==
    /\ mainPc = "channels"
    /\ CallGetBest(args.nchannels, DefaultMaxFreqErr)
    /\ mainPc' = "getBest"
    /\ UNCHANGED <<given, args, fs, firstLine, dataLinesRead, opened, saved, stdout, exitStatus>>
    /\ UNCHANGED <<aggVars, toolCalls, raised>>

\* Line 145, the outer call: tool.measureMeanPPM of what getBest returned.
MainMeasure ==
    /\ mainPc = "getBest"
    /\ selPc = "done"
    /\ CallMeasureMeanPPM(best)
    /\ mainPc' = "measureMeanPPM"
    /\ UNCHANGED <<given, args, fs, firstLine, dataLinesRead, opened, saved, stdout, exitStatus>>
    /\ UNCHANGED <<selVars, toolCalls, raised>>

\* Line 146: print the returned pair through "%.2fppm +-%f".  The model keeps
\* the format and its argument, not the text they make.
MainPrint ==
    /\ mainPc = "measureMeanPPM"
    /\ aggPc = "done"
    /\ stdout' = Append(stdout, <<"%.2fppm +-%f", aggResult>>)
    /\ mainPc' = "end"
    /\ UNCHANGED <<given, args, fs, firstLine, dataLinesRead, opened, saved, exitStatus>>
    /\ UNCHANGED <<selVars, aggVars, toolCalls, raised>>

\* --------------------------------------------------- specifications
IdleSel ==
    /\ self = <<>>
    /\ channels = <<>>
    /\ nchannels = DefaultNChannels
    /\ max_freq_err = DefaultMaxFreqErr
    /\ selPc = "idle"
    /\ iters = 0
    /\ best = <<>>

IdleAgg ==
    /\ aggArg = <<>>
    /\ ppms = <<>>
    /\ ppm = FracOfInt(0)
    /\ pwr = 0
    /\ aggPc = "idle"
    /\ aggResult = <<>>

IdleMain(pc) ==
    /\ given = [scan |-> FALSE, band |-> "None", channellist |-> <<"bts_channels.csv">>,
                nchannels |-> DefaultNChannels]
    /\ args = given
    /\ fs = {}
    /\ opened = <<>>
    /\ mainPc = pc
    /\ firstLine = <<>>
    /\ dataLinesRead = 0
    /\ toolCalls = <<>>
    /\ saved = <<>>
    /\ stdout = <<>>
    /\ exitStatus = -1
    /\ raised = "none"

\* The program after parse_args (lines 128-129), in any file system.
Init ==
    /\ IdleSel
    /\ IdleAgg
    /\ given \in [scan : BOOLEAN, band : Bands, channellist : Paths, nchannels : Counts]
    /\ args = given
    /\ opened = <<>>
    /\ fs \in SUBSET {args.channellist, WithCsv(args.channellist)}
    /\ mainPc = "start"
    /\ firstLine = <<>>
    /\ dataLinesRead = 0
    /\ toolCalls = <<>>
    /\ saved = <<>>
    /\ stdout = <<>>
    /\ exitStatus = -1
    /\ raised = "none"

Next ==
    \/ MainDecide
    \/ MainHelpExit
    \/ MainScan
    \/ MainScanFail
    \/ LoadHeader
    \/ LoadRecords
    \/ LoadRecordsFail
    \/ MainGetBest
    \/ RemoveWorst
    \/ BreakLoop
    \/ ExitLoop
    \/ SortAndReturn
    \/ MainMeasure
    \/ MeasureOk
    \/ MeasureFail
    \/ DivideAndReturn
    \/ DivideByZero
    \/ MainPrint

Spec == Init /\ [][Next]_vars

\* getBest called on any list, with any arguments.
InitSel ==
    /\ self \in ChannelLists \cup {ScenarioChannels}
    /\ channels = <<>>
    /\ nchannels = DefaultNChannels
    /\ max_freq_err = DefaultMaxFreqErr
    /\ selPc = "idle"
    /\ iters = 0
    /\ best = <<>>
    /\ IdleAgg
    /\ IdleMain("none")

NextSel ==
    \/ DirectGetBest
    \/ RemoveWorst
    \/ BreakLoop
    \/ ExitLoop
    \/ SortAndReturn

SpecSel == InitSel /\ [][NextSel]_vars

\* measureMeanPPM entered (lines 55-57) with any channels, from a caller
\* that prints what it returns, as line 146 does.
InitAgg ==
    /\ IdleSel
    /\ aggArg \in AggLists \cup {ScenarioSelection}
    /\ ppms = <<>>
    /\ ppm = FracOfInt(0)
    /\ pwr = 0
    /\ aggPc = "loop"
    /\ aggResult = <<>>
    /\ IdleMain("measureMeanPPM")

NextAgg ==
    \/ MeasureOk
    \/ MeasureFail
    \/ DivideAndReturn
    \/ DivideByZero
    \/ MainPrint

SpecAgg == InitAgg /\ [][NextAgg]_vars

\* ------------------------------------------------------------ claims
\* The vocabulary of the claims, defined apart from the model's operators.
RECURSIVE SeqSum(_)
SeqSum(s) == IF s = <<>> THEN 0 ELSE s[1] + SeqSum(Tail(s))

Range(s) == {s[i] : i \in DOMAIN s}

Deviations(s) == [i \in DOMAIN s |-> s[i][4]]

Powers(s) == [i \in DOMAIN s |-> s[i][5]]

\* len(s) times the distance of s[i]'s deviation from the mean deviation.
Distance(s, i) == Abs(Len(s) * s[i][4] - SeqSum(Deviations(s)))

\* Every deviation is closer to the mean than thr.
WithinThreshold(s, thr) == \A i \in DOMAIN s : Distance(s, i) < Len(s) * thr

\* s[k] is the first of the channels farthest from the mean.
FirstFarthest(s, k) ==
    /\ \A j \in DOMAIN s : Distance(s, j) <= Distance(s, k)
    /\ \A j \in 1..(k - 1) : Distance(s, j) < Distance(s, k)

Without(s, k) == SubSeq(s, 1, k - 1) \o SubSeq(s, k + 1, Len(s))

Descending(b) == \A i, j \in DOMAIN b : i < j => b[i][5] >= b[j][5]

Distinct(b) == \A i, j \in DOMAIN b : i # j => b[i] # b[j]

\* b is the n strongest of pool: all of pool when it has fewer than n.
Strongest(b, pool, n) ==
    /\ Len(b) = Min(n, Cardinality(pool))
    /\ Distinct(b)
    /\ Range(b) \subseteq pool
    /\ Descending(b)
    /\ \A x \in Range(b), y \in pool \ Range(b) : x[5] >= y[5]

\* C1: when every deviation of the list is closer to the mean of all of
\* them than max_freq_err, getBest removes nothing, in any order of the
\* list, and returns the nchannels strongest channels of the list.
C1_Sufficiency ==
    (selPc # "idle" /\ WithinThreshold(self, max_freq_err)) =>
        /\ Len(channels) = Len(self)
        /\ Range(channels) = Range(self)
        /\ selPc \in {"loop", "sort"} => channels = self
        /\ iters <= 1
        /\ (selPc = "done" /\ nchannels >= 0) => Strongest(best, Range(self), nchannels)

\* C1's case: a consistent list of several channels, not in the order of
\* their powers, of which getBest returned a part.
C1_Witness ==
    /\ selPc = "done"
    /\ WithinThreshold(self, max_freq_err)
    /\ Len(self) = 3
    /\ nchannels = 1
    /\ ~Descending(self)
    /\ self[1][4] # self[2][4]
    /\ Len(best) = 1

\* C2: every pass of the loop that removes a channel removes the first of
\* the channels whose deviation is farthest from the current mean.
C2_TieBreakFirst ==
    [][(selPc = "loop" /\ Len(channels') < Len(channels)) =>
          \E k \in DOMAIN channels :
              FirstFarthest(channels, k) /\ channels' = Without(channels, k)]_vars

\* C3: every pass of the loop that removes takes exactly one channel, so
\* the list is as many channels shorter as passes were made, and the loop
\* makes at most as many passes as the list had channels and then leaves.
C3_Shrinkage ==
    selPc # "idle" =>
        /\ iters <= Len(self)
        /\ selPc = "loop" => Len(channels) = Len(self) - iters
        /\ selPc = "loop" => ENABLED (RemoveWorst \/ BreakLoop \/ ExitLoop)
        /\ selPc \in {"sort", "done"} =>
              \/ Len(channels) = Len(self) - iters
              \/ Len(channels) = Len(self) - iters + 1 /\ channels # <<>>

\* C3's case: the loop made as many passes as the list had channels.
C3_Witness ==
    /\ selPc = "done"
    /\ Len(self) = 3
    /\ iters = 3

\* C4: for nchannels >= 0, getBest returns the first nchannels of the
\* surviving channels in descending order of power: min(nchannels,
\* survivors) channels of the list, none weaker than a survivor left out.
C4_Ranking ==
    (selPc = "done" /\ nchannels >= 0) =>
        /\ Range(channels) \subseteq Range(self)
        /\ Descending(channels)
        /\ best = SubSeq(channels, 1, Len(best))
        /\ Strongest(best, Range(channels), nchannels)
        /\ (self = ScenarioChannels /\ max_freq_err = DefaultMaxFreqErr /\ nchannels = 2) =>
              best = <<ScenarioChannels[2], ScenarioChannels[1]>>

\* C4's case: the scenario, with the outlier removed and two returned.
C4_Witness ==
    /\ selPc = "done"
    /\ self = ScenarioChannels
    /\ max_freq_err = DefaultMaxFreqErr
    /\ nchannels = 2
    /\ Len(channels) = 2
    /\ best = <<ScenarioChannels[2], ScenarioChannels[1]>>

\* C10: for a list that is not empty and max_freq_err > 0 the working list
\* is never empty, and getBest with nchannels >= 1 returns a channel.
C10_NeverEmpties ==
    (selPc # "idle" /\ self # <<>> /\ max_freq_err > 0) =>
        /\ channels # <<>>
        /\ (selPc = "done" /\ nchannels >= 1) => best # <<>>

\* C10's case: removals went down to a single channel, which stopped them.
C10_Witness ==
    /\ selPc = "done"
    /\ max_freq_err > 0
    /\ Len(self) >= 2
    /\ Len(channels) = 1
    /\ nchannels >= 1
    /\ Len(best) = 1

TotalPower(chs) == SeqSum(Powers(chs))

WeightedSum(vals, chs) == SeqSum([i \in DOMAIN vals |-> vals[i] * chs[i][5]])

\* |v - mean| compared with err, for fractions with positive denominators.
ErrorOf(v, mean) == Abs(v * mean[2] - mean[1])

\* Every run of the tool so far ended well.
AllMeasured == \A i \in DOMAIN toolCalls : toolCalls[i][2] = "ok"

\* C5: when every measurement succeeds and the total power is not zero,
\* measureMeanPPM returns ppm = sum(ppm_i * power_i) / sum(power_i) and
\* ppm_error = the largest |ppm_i - ppm|, which is not negative; the values
\* 1.0 and 2.0 with the powers 10 and 30 give 1.75 and 0.75.
C5_AggregatorResult ==
    /\ (aggPc = "loop" /\ Len(ppms) = Len(aggArg) /\ TotalPower(aggArg) # 0) =>
          ENABLED DivideAndReturn
    /\ aggPc = "done" =>
          LET mean == aggResult[1]
              err == aggResult[2]
          IN  /\ aggArg # <<>>
              /\ Len(ppms) = Len(aggArg)
              /\ TotalPower(aggArg) # 0
              /\ mean[2] > 0
              /\ mean[1] * TotalPower(aggArg) = WeightedSum(ppms, aggArg) * mean[2]
              /\ err[2] > 0
              /\ err[1] >= 0
              /\ \A i \in DOMAIN ppms : ErrorOf(ppms[i], mean) * err[2] <= err[1] * mean[2]
              /\ \E i \in DOMAIN ppms : ErrorOf(ppms[i], mean) * err[2] = err[1] * mean[2]
              /\ (aggArg = ScenarioSelection /\ ppms = <<1, 2>>) =>
                    /\ 100 * mean[1] = 175 * mean[2]
                    /\ 100 * err[1] = 75 * err[2]

\* C5's case: the scenario, measured and returned.
C5_Witness ==
    /\ aggPc = "done"
    /\ aggArg = ScenarioSelection
    /\ ppms = <<1, 2>>
    /\ 100 * aggResult[1][1] = 175 * aggResult[1][2]

\* C6 as claimed: with a total power of zero measureMeanPPM always ends in
\* the division error and returns nothing.
C6_AlwaysDivisionError ==
    (TotalPower(aggArg) = 0 /\ aggPc \in {"done", "raised"}) =>
        /\ raised = "ZeroDivisionError"
        /\ aggResult = <<>>

\* C6 as amended: with a total power of zero measureMeanPPM never returns
\* and nothing is printed; it ends in the division error when every
\* measurement succeeded, and in the error of the measurement that failed
\* otherwise.
C6_ZeroTotalPower ==
    (TotalPower(aggArg) = 0 /\ aggPc # "idle") =>
        /\ aggPc # "done"
        /\ aggResult = <<>>
        /\ stdout = <<>>
        /\ (aggPc = "loop" /\ Len(ppms) = Len(aggArg)) =>
              ENABLED DivideByZero /\ ~ENABLED DivideAndReturn
        /\ (aggPc = "raised" /\ AllMeasured) => raised = "ZeroDivisionError"
        /\ (aggPc = "raised" /\ ~AllMeasured) => raised \in MeasureErrors

\* C6's case: powers that are not zero and add up to zero, all measured.
C6_Witness ==
    /\ aggPc = "raised"
    /\ raised = "ZeroDivisionError"
    /\ Len(aggArg) = 2
    /\ aggArg[1][5] # 0
    /\ Len(toolCalls) = 2

\* C7: the channels are measured one at a time in the order given, each at
\* most once; a failed measurement is the last one, ends measureMeanPPM in
\* its error, and nothing is returned or printed.
C7_AbortOnFailure ==
    /\ Len(toolCalls) <= Len(aggArg)
    /\ \A i \in DOMAIN toolCalls :
          toolCalls[i][1] = <<"-b", aggArg[i][1], "-c", aggArg[i][2]>>
    /\ \A i \in DOMAIN toolCalls :
          toolCalls[i][2] = "failed" =>
              /\ i = Len(toolCalls)
              /\ aggPc = "raised"
              /\ raised = toolCalls[i][3]
              /\ aggResult = <<>>
              /\ stdout = <<>>
              /\ ~ENABLED NextAgg

\* C7's case: the second of three channels failed.
C7_Witness ==
    /\ Len(aggArg) = 3
    /\ Len(toolCalls) = 2
    /\ toolCalls[2][2] = "failed"
    /\ aggPc = "raised"

\* A line without its newline.
LineText(l) == IF l # <<>> /\ l[Len(l)] = "\n" THEN SubSeq(l, 1, Len(l) - 1) ELSE l

\* The loader has read the first line of the file.
HeaderRead == ~args.scan /\ mainPc \in {"records", "raised"}

\* Loading failed on the first line, before any channel was read.
FormatError ==
    /\ mainPc = "raised"
    /\ raised = "ValueError"
    /\ dataLinesRead = 0
    /\ self = <<>>

\* C8 as claimed: a first line that differs in any way from the header
\* fails the load before a channel is read.
C8_AnyDifferenceRejected == (HeaderRead /\ LineText(firstLine) # HDR) => FormatError

\* C8 as amended: a first line that differs from the header in more than
\* white space at its ends fails the load before a channel is read.
C8_FormatRejection == (HeaderRead /\ Strip(firstLine) # HDR) => FormatError

\* C8's case: a header with one letter in the other case was rejected.
C8_Witness ==
    /\ HeaderRead
    /\ FormatError
    /\ Len(Strip(firstLine)) = Len(HDR)
    /\ Strip(firstLine)[1] = "Band,channel,freq"

\* Neither the path given nor the path with '.csv' is a file.  The program
\* adds a file only by saving, so this reads the files of the start as long
\* as nothing was saved.
NoListFile == given.channellist \notin fs /\ WithCsv(given.channellist) \notin fs

ScanCalls == {i \in DOMAIN toolCalls : toolCalls[i][1][1] = "-s"}

\* C9: without --scan and without a list file the scan is forced; a scan
\* without a band prints the help and exits with status 1 before the tool
\* is run or a file written; without --scan and with a list file the list
\* is loaded from that file and no scan is run.
C9_ScanDecision ==
    mainPc # "start" =>
        /\ (~given.scan /\ saved = <<>> /\ NoListFile) => args.scan
        /\ (args.scan /\ ~Truthy(given.band)) =>
              /\ toolCalls = <<>>
              /\ saved = <<>>
              /\ opened = <<>>
              /\ mainPc \in {"decided", "exit"}
              /\ mainPc = "decided" =>
                    ENABLED MainHelpExit /\ ~ENABLED (MainScan \/ MainScanFail \/ LoadHeader)
              /\ mainPc = "exit" => exitStatus = 1 /\ stdout = <<<<"help">>>>
        /\ (~given.scan /\ saved = <<>> /\ ~NoListFile) =>
              /\ ~args.scan
              /\ ScanCalls = {}
              /\ args.channellist =
                    IF given.channellist \in fs THEN given.channellist
                    ELSE WithCsv(given.channellist)
              /\ mainPc = "decided" => ENABLED LoadHeader
              /\ mainPc # "decided" => opened = <<args.channellist>>

\* C9's case: no list file, no --scan, no band: help and exit status 1.
C9_Witness ==
    /\ mainPc = "exit"
    /\ ~given.scan
    /\ NoListFile
    /\ exitStatus = 1
    /\ stdout = <<<<"help">>>>
    /\ toolCalls = <<>>

====
